---- MODULE Spec2Model ----
(***************************************************************************)
(* OCI layout composer and single-arch projector of                         *)
(* flatpak-oci-test-content: make-test-content.py (make_multiarch_image,    *)
(* main) and install-oci.py (make_single_arch_copy,                         *)
(* Installer._install_from_path).                                           *)
(*                                                                          *)
(* A layout is a directory: the oci-layout marker, index.json and the       *)
(* files of blobs/sha256.  A JSON document is a record whose fields are the *)
(* keys the document has; a file of the blob store is its name, its body    *)
(* and its byte length.                                                     *)
(***************************************************************************)
EXTENDS Integers, Sequences, FiniteSets, TLC

VARIABLES
    prog,               \* which script runs: "compose" or "install"
    pc,                 \* position of the running script
    err,                \* the exception that is propagating, or "None"
    workdir,            \* make-test-content: the TemporaryDirectory of __main__ exists
    call,               \* make-test-content: number of the make_multiarch_image call of main
    images,             \* make_multiarch_image: the input layouts, in the mapping's order
    old_dir,            \* what was at output_dir when make_multiarch_image was called
    output_dir,         \* make_multiarch_image: the directory at output_dir
    k,                  \* make_multiarch_image: inputs already handled by the loop
    image_index,        \* make_multiarch_image: the image index being built
    input_image_index,  \* make_multiarch_image: index.json of the last input, as loaded
    source,             \* install-oci: the layout at Installer.source_path
    tds,                \* install-oci: the TemporaryDirectory of each _install_from_path call
    stack,              \* install-oci: the paths of the active calls (0: source, i: tds[i])
    picked,             \* install-oci: the element skopeo copied (0: none yet)
    architecture,       \* make_single_arch_copy: config["architecture"] of the copy
    imports             \* install-oci: the paths flatpak build-import-bundle was run on

vars == <<prog, pc, err, workdir, call, images, old_dir, output_dir, k, image_index,
          input_image_index, source, tds, stack, picked, architecture, imports>>

composeVars == <<workdir, call, images, old_dir, output_dir, k, image_index,
                 input_image_index>>
installVars == <<source, tds, stack, picked, architecture, imports>>

(***************************************************************************)
(* Bounds of the model.                                                     *)
(***************************************************************************)
MaxImages == 2          \* most input layouts in one mapping
MaxManifests == 2       \* most elements of a source image index
MaxDepth == 3           \* _install_from_path calls the model follows, one inside the other

(***************************************************************************)
(* JSON values and their serialization                                      *)
(***************************************************************************)
IndexMediaType == "application/vnd.oci.image.index.v1+json"
ManifestMediaType == "application/vnd.oci.image.manifest.v1+json"
ConfigMediaType == "application/vnd.oci.image.config.v1+json"
LayerMediaType == "application/vnd.oci.image.layer.v1.tar+gzip"

NoFile == [nofile |-> TRUE]

\* hashlib.sha256(bytes).hexdigest(): an injective image of the bytes, 64 characters long
HexLen == 64
Sha256(body) == [hexdigest |-> body]

\* "sha256:" + hex, kept as the prefix and the rest
DigestOf(hex) == <<"sha256:", hex>>

RECURSIVE DecLen(_)
DecLen(n) == IF n < 10 THEN 1 ELSE 1 + DecLen(n \div 10)

RECURSIVE SumOver(_, _)
SumOver(S, f) ==
    IF S = {} THEN 0
    ELSE LET x == CHOOSE y \in S : TRUE IN f[x] + SumOver(S \ {x}, f)

RECURSIVE SumSeq(_)
SumSeq(s) == IF s = <<>> THEN 0 ELSE Head(s) + SumSeq(Tail(s))

\* json.dumps(..., indent=4): one member '<indent>"key": value' at nesting level lvl
MemberLen(key, vlen, lvl) == 4 * (lvl + 1) + Len(key) + 4 + vlen
\* an object or a list of n members whose lines add up to total
BlockLen(total, n, lvl) ==
    IF n = 0 THEN 2 ELSE 2 + total + 2 * (n - 1) + 1 + 4 * lvl + 1
StrLen(s) == Len(s) + 2

\* an object whose values are all strings (platform, annotations)
StrObjLen(o, lvl) ==
    BlockLen(SumOver(DOMAIN o, [key \in DOMAIN o |-> MemberLen(key, StrLen(o[key]), lvl)]),
             Cardinality(DOMAIN o), lvl)

DescriptorMemberLen(d, key, lvl) ==
    MemberLen(key,
              CASE key = "mediaType" -> StrLen(d[key])
                [] key = "digest" -> Len(d[key][1]) + HexLen + 2
                [] key = "size" -> DecLen(d[key])
                [] OTHER -> StrObjLen(d[key], lvl + 1),
              lvl)

DescriptorLen(d, lvl) ==
    BlockLen(SumOver(DOMAIN d, [key \in DOMAIN d |-> DescriptorMemberLen(d, key, lvl)]),
             Cardinality(DOMAIN d), lvl)

\* len(json.dumps(image_index, indent=4).encode("utf8"))
IndexJsonLen(idx) ==
    LET items == [i \in 1..Len(idx.manifests) |-> 8 + DescriptorLen(idx.manifests[i], 2)]
        list == BlockLen(SumSeq(items), Len(items), 1)
    IN  BlockLen(MemberLen("schemaVersion", DecLen(idx.schemaVersion), 0)
                   + MemberLen("mediaType", StrLen(idx.mediaType), 0)
                   + MemberLen("manifests", list, 0),
                 3, 0)

\* dict(d) with d[key] = v: a copy, the original is left as it was
WithKey(d, key, v) == [f \in DOMAIN d \cup {key} |-> IF f = key THEN v ELSE d[f]]

(***************************************************************************)
(* Files and layouts                                                        *)
(***************************************************************************)
File(body, len) == [name |-> Sha256(body), body |-> body, len |-> len]
Descriptor(mediaType, file) ==
    [mediaType |-> mediaType, digest |-> DigestOf(file.name), size |-> file.len]

Absent == [exists |-> FALSE, marker |-> FALSE, index |-> NoFile, blobs |-> {}]

\* blob_path / get_path_from_descriptor: the file name inside blobs/sha256
blob_path(descriptor) == descriptor.digest[2]
DigestSupported(descriptor) == descriptor.digest[1] = "sha256:"

HasBlob(layout, name) == layout.exists /\ \E f \in layout.blobs : f.name = name
ReadBlob(layout, name) == (CHOOSE f \in layout.blobs : f.name = name).body

\* shutil.copyfile / open(..., "wb"): the file replaces one of the same name
WriteFile(blobs, file) == {g \in blobs : g.name # file.name} \cup {file}
RECURSIVE WriteFiles(_, _)
WriteFiles(blobs, files) ==
    IF files = {} THEN blobs
    ELSE LET f == CHOOSE g \in files : TRUE
         IN  WriteFiles(WriteFile(blobs, f), files \ {f})

(***************************************************************************)
(* The layouts the scripts are run on                                       *)
(***************************************************************************)
Labels(ref) == [key \in {"org.flatpak.ref"} |-> ref]
ConfigDoc(arch, labels) ==
    [architecture |-> arch, os |-> "linux", config |-> [Labels |-> labels]]
ManifestDoc(config, layers) ==
    [schemaVersion |-> 2, mediaType |-> ManifestMediaType,
     config |-> Descriptor(ConfigMediaType, config),
     layers |-> [i \in 1..Len(layers) |-> Descriptor(LayerMediaType, layers[i])]]
RefName(tag) == [key \in {"org.opencontainers.image.ref.name"} |-> tag]

Layer1 == File([tar |-> "bin/sh"], 2219)
Layer2 == File([tar |-> "bin/hello"], 187)

CfgA == File(ConfigDoc("amd64", Labels("app/net.fishsoup.Hello/x86_64/stable")), 612)
CfgB == File(ConfigDoc("arm64", Labels("app/net.fishsoup.Hello/aarch64/stable")), 613)
CfgC == File(ConfigDoc("arm", <<>>), 540)
CfgD == File(ConfigDoc("arm", Labels("app/net.fishsoup.Hello/arm/stable")), 609)
CfgX == File(ConfigDoc("aarch64", Labels("app/net.fishsoup.Hello/aarch64/stable")), 615)

ManA == File(ManifestDoc(CfgA, <<Layer1>>), 423)
ManB == File(ManifestDoc(CfgB, <<Layer1, Layer2>>), 587)
ManC == File(ManifestDoc(CfgC, <<Layer2>>), 424)
ManD == File(ManifestDoc(CfgD, <<Layer1>>), 425)
ManX == File(ManifestDoc(CfgX, <<Layer1>>), 426)

Blobs(manifest) ==
    CASE manifest = ManA -> {ManA, CfgA, Layer1}
      [] manifest = ManB -> {ManB, CfgB, Layer1, Layer2}
      [] manifest = ManC -> {ManC, CfgC, Layer2}
      [] manifest = ManD -> {ManD, CfgD, Layer1}
      [] manifest = ManX -> {ManX, CfgX, Layer1}

\* index.json of a layout with one entry
TopIndex(descriptor) == [schemaVersion |-> 2, manifests |-> <<descriptor>>]
Layout(descriptor, files) ==
    [exists |-> TRUE, marker |-> TRUE, index |-> TopIndex(descriptor), blobs |-> files]

\* single-arch layouts, as flatpak build-bundle --oci writes them
LayA == Layout(Descriptor(ManifestMediaType, ManA) @@ [annotations |-> RefName("latest")],
               Blobs(ManA))
LayB == Layout(Descriptor(ManifestMediaType, ManB), Blobs(ManB))
LayC == Layout(Descriptor(ManifestMediaType, ManC)
                 @@ [platform |-> [os |-> "linux", architecture |-> "arm", variant |-> "v7"]],
               Blobs(ManC))
LayD == Layout(Descriptor(ManifestMediaType, ManD), Blobs(ManD))
\* damaged inputs: the config blob is gone; the whole directory is gone
LayNoConfig == Layout(Descriptor(ManifestMediaType, ManA), Blobs(ManA) \ {CfgA})
LayGone == Absent

InputLayouts == {LayA, LayB, LayC, LayD, LayNoConfig, LayGone}

RECURSIVE SeqsUpTo(_, _)
SeqsUpTo(S, n) ==
    IF n = 0 THEN {<<>>}
    ELSE LET shorter == SeqsUpTo(S, n - 1)
         IN  shorter \cup {Append(s, x) : s \in {t \in shorter : Len(t) = n - 1}, x \in S}

\* the mappings main may pass: any layouts, in any order
ImageMaps == SeqsUpTo(InputLayouts, MaxImages)
\* what may already be at output_dir: nothing, or an earlier layout
OldDirs == {Absent, LayB}

(***************************************************************************)
(* make-test-content.py                                                     *)
(***************************************************************************)
NumCalls == 2           \* main calls make_multiarch_image for the runtimes and the apps

EmptyImageIndex == [schemaVersion |-> 2, mediaType |-> IndexMediaType, manifests |-> <<>>]

\* load_json_blob(base, descriptor): the exception it ends with, or "None"
LoadBlobError(layout, descriptor) ==
    IF ~DigestSupported(descriptor) THEN "AssertionError"
    ELSE IF ~HasBlob(layout, blob_path(descriptor)) THEN "FileNotFoundError"
    ELSE "None"

\* lines 165-176 on one input: the exception the iteration ends with, or "None"
IterError(input_dir) ==
    IF ~input_dir.exists \/ input_dir.index = NoFile THEN "FileNotFoundError"
    ELSE IF "manifests" \notin DOMAIN input_dir.index THEN "KeyError"
    ELSE IF Len(input_dir.index.manifests) = 0 THEN "IndexError"
    ELSE LET manifest_descriptor == input_dir.index.manifests[1] IN
         IF LoadBlobError(input_dir, manifest_descriptor) # "None"
         THEN LoadBlobError(input_dir, manifest_descriptor)
         ELSE LET manifest == ReadBlob(input_dir, blob_path(manifest_descriptor)) IN
              IF "config" \notin DOMAIN manifest THEN "KeyError"
              ELSE IF LoadBlobError(input_dir, manifest.config) # "None"
              THEN LoadBlobError(input_dir, manifest.config)
              ELSE LET config == ReadBlob(input_dir, blob_path(manifest.config)) IN
                   IF {"os", "architecture"} \subseteq DOMAIN config THEN "None"
                   ELSE "KeyError"

\* a descriptor made anew from the three required fields instead of a copy
OutputDescriptor_Rebuilt(manifest_descriptor, config) ==
    [mediaType |-> manifest_descriptor.mediaType,
     digest |-> manifest_descriptor.digest,
     size |-> manifest_descriptor.size,
     platform |-> [os |-> config.os, architecture |-> config.architecture]]

\* lines 173-177: the descriptor of one input as it goes into the image index
OutputDescriptor(manifest_descriptor, config) ==
    WithKey(manifest_descriptor, "platform",
            [os |-> config.os, architecture |-> config.architecture])

\* lines 168-177: index.json of the input as it is in memory after the platform
\* was set: dict() copied the descriptor, so the loaded one is as it was read
LoadedInputIndex(index_json, output_descriptor) == index_json

\* lines 190-194: the entry of index.json for the image index blob; line 193
\* takes len(image_index_digest), the length of the hex digest, as the size
ArchiveDescriptor(image_index_digest, image_index_contents) ==
    [mediaType |-> IndexMediaType,
     digest |-> DigestOf(image_index_digest),
     size |-> HexLen]

\* lines 187-195
ArchiveIndex(image_index_digest, image_index_contents) ==
    [schemaVersion |-> 2, mediaType |-> IndexMediaType,
     manifests |-> <<ArchiveDescriptor(image_index_digest, image_index_contents)>>]

\* __main__, line 239: the temporary work directory is created
C_MkTemp ==
    /\ prog = "compose" /\ pc = "c_start"
    /\ workdir' = TRUE
    /\ pc' = "c_main"
    /\ UNCHANGED <<prog, err, call, images, old_dir, output_dir, k, image_index,
                   input_image_index>>
    /\ UNCHANGED installVars

\* main, lines 202-232: skopeo, ostree and flatpak build the single-arch layouts;
\* any of them may exit non-zero
C_Build ==
    /\ prog = "compose" /\ pc = "c_main"
    /\ \E ok \in BOOLEAN :
         /\ pc' = IF ok THEN "c_call" ELSE "c_exit"
         /\ err' = IF ok THEN "None" ELSE "CalledProcessError"
    /\ UNCHANGED <<prog>>
    /\ UNCHANGED composeVars
    /\ UNCHANGED installVars

\* main, lines 234-235: make_multiarch_image is called on the next mapping
C_Call ==
    /\ prog = "compose" /\ pc = "c_call" /\ call < NumCalls
    /\ \E imgs \in ImageMaps, old \in OldDirs :
         /\ images' = imgs
         /\ old_dir' = old
         /\ output_dir' = old
    /\ call' = call + 1
    /\ k' = 0
    /\ image_index' = EmptyImageIndex
    /\ input_image_index' = NoFile
    /\ pc' = "m_prepare"
    /\ UNCHANGED <<prog, err, workdir>>
    /\ UNCHANGED installVars

\* make_multiarch_image, lines 146-162: the old directory is removed, the new
\* one made with its blobs directory and the oci-layout file
M_Prepare ==
    /\ prog = "compose" /\ pc = "m_prepare"
    /\ output_dir' = [exists |-> TRUE, marker |-> TRUE, index |-> NoFile, blobs |-> {}]
    /\ image_index' = EmptyImageIndex
    /\ pc' = "m_loop"
    /\ UNCHANGED <<prog, err, workdir, call, images, old_dir, k, input_image_index>>
    /\ UNCHANGED installVars

\* make_multiarch_image, lines 164-179: one turn of the loop over images.items()
M_Iter ==
    /\ prog = "compose" /\ pc = "m_loop" /\ k < Len(images)
    /\ LET input_dir == images[k + 1]
           failure == IterError(input_dir)
       IN  /\ output_dir' =
                 IF input_dir.exists
                 THEN [output_dir EXCEPT !.blobs = WriteFiles(@, input_dir.blobs)]
                 ELSE output_dir
           /\ IF failure = "None"
              THEN LET manifest_descriptor == input_dir.index.manifests[1]
                       manifest == ReadBlob(input_dir, blob_path(manifest_descriptor))
                       config == ReadBlob(input_dir, blob_path(manifest.config))
                   IN  /\ input_image_index' =
                             LoadedInputIndex(input_dir.index,
                                              OutputDescriptor(manifest_descriptor, config))
                       /\ image_index' =
                             [image_index EXCEPT !.manifests =
                                 Append(@, OutputDescriptor(manifest_descriptor, config))]
                       /\ k' = k + 1
                       /\ UNCHANGED <<pc, err>>
              ELSE /\ err' = failure
                   /\ pc' = "c_exit"
                   /\ UNCHANGED <<k, image_index, input_image_index>>
    /\ UNCHANGED <<prog, workdir, call, images, old_dir>>
    /\ UNCHANGED installVars

\* make_multiarch_image, lines 181-198: the image index is written as a blob
\* and index.json points at it
M_Finish ==
    /\ prog = "compose" /\ pc = "m_loop" /\ k = Len(images)
    /\ LET image_index_contents == image_index
           image_index_digest == Sha256(image_index_contents)
           blob == [name |-> image_index_digest, body |-> image_index_contents,
                    len |-> IndexJsonLen(image_index)]
       IN  output_dir' =
             [output_dir EXCEPT
                !.blobs = WriteFile(@, blob),
                !.index = ArchiveIndex(image_index_digest, image_index_contents)]
    /\ pc' = "m_return"
    /\ UNCHANGED <<prog, err, workdir, call, images, old_dir, k, image_index,
                   input_image_index>>
    /\ UNCHANGED installVars

\* main, lines 234-236: back from make_multiarch_image
C_Return ==
    /\ prog = "compose" /\ pc = "m_return"
    /\ pc' = IF call < NumCalls THEN "c_call" ELSE "c_exit"
    /\ UNCHANGED <<prog, err>>
    /\ UNCHANGED composeVars
    /\ UNCHANGED installVars

\* __main__, lines 239-240: leaving the with block removes the work directory,
\* whether main returned or raised
C_Exit ==
    /\ prog = "compose" /\ pc = "c_exit"
    /\ workdir' = FALSE
    /\ pc' = "done"
    /\ UNCHANGED <<prog, err, call, images, old_dir, output_dir, k, image_index,
                   input_image_index>>
    /\ UNCHANGED installVars

(***************************************************************************)
(* install-oci.py                                                           *)
(***************************************************************************)
Manifests == {ManA, ManB, ManC, ManD, ManX}

\* elements of a multi-arch image index
ElemA == Descriptor(ManifestMediaType, ManA)
           @@ [platform |-> [os |-> "linux", architecture |-> "amd64"],
               annotations |-> RefName("latest")]
ElemB == Descriptor(ManifestMediaType, ManB)
           @@ [platform |-> [os |-> "linux", architecture |-> "arm64"]]
\* two variants of one architecture
ElemC == Descriptor(ManifestMediaType, ManC)
           @@ [platform |-> [os |-> "linux", architecture |-> "arm", variant |-> "v5"]]
ElemD == Descriptor(ManifestMediaType, ManD)
           @@ [platform |-> [os |-> "linux", architecture |-> "arm", variant |-> "v7"],
               annotations |-> RefName("stable")]
\* the declared platform names the architecture differently from the config
ElemX == Descriptor(ManifestMediaType, ManX)
           @@ [platform |-> [os |-> "linux", architecture |-> "arm64"],
               annotations |-> RefName("latest")]
\* no platform declared
ElemN == Descriptor(ManifestMediaType, ManA)

Elements == {ElemA, ElemB, ElemC, ElemD, ElemX, ElemN}

ImageIndexDoc(manifests) ==
    [schemaVersion |-> 2, mediaType |-> IndexMediaType, manifests |-> manifests]
ImageIndexFile(manifests) ==
    File(ImageIndexDoc(manifests), IndexJsonLen(ImageIndexDoc(manifests)))

\* a well-formed multi-arch layout with the given elements
MultiArch(manifests) ==
    Layout(Descriptor(IndexMediaType, ImageIndexFile(manifests)),
           {ImageIndexFile(manifests)}
             \cup UNION {Blobs(m) : m \in {n \in Manifests :
                             \E i \in 1..Len(manifests) : blob_path(manifests[i]) = n.name}})

Sources == {MultiArch(ms) : ms \in SeqsUpTo(Elements, MaxManifests)}
             \cup {LayA, LayB, LayC, LayNoConfig, LayGone}

EmptyDir == [exists |-> TRUE, marker |-> FALSE, index |-> NoFile, blobs |-> {}]

\* the directory a path names
Dir(path) == IF path = 0 THEN source ELSE tds[path]

\* open(index.json), json.load, open(manifests[0]), json.load:
\* the exception they end with, or "None"
OpenError(layout) ==
    IF ~layout.exists \/ layout.index = NoFile THEN "FileNotFoundError"
    ELSE IF "manifests" \notin DOMAIN layout.index THEN "KeyError"
    ELSE IF Len(layout.index.manifests) = 0 THEN "IndexError"
    ELSE LoadBlobError(layout, layout.index.manifests[1])

FirstBlob(layout) == ReadBlob(layout, blob_path(layout.index.manifests[1]))

\* the comparison of line 94 turned round
IsImageIndex_Negated(manifest_json) == manifest_json.mediaType # IndexMediaType

\* line 94
IsImageIndex(manifest_json) == manifest_json.mediaType = IndexMediaType

\* the files of a layout that a manifest descriptor reaches: the manifest, its
\* config and its layers
Reached(layout, descriptor) ==
    LET manifest == ReadBlob(layout, blob_path(descriptor))
        names == {blob_path(descriptor), blob_path(manifest.config)}
                   \cup {blob_path(manifest.layers[i]) : i \in 1..Len(manifest.layers)}
    IN  {f \in layout.blobs : f.name \in names}

\* what skopeo copy --multi-arch=system leaves at the destination when it
\* copies element i: the image, under a descriptor it makes itself
SkopeoCopy(layout, i) ==
    LET chosen == FirstBlob(layout).manifests[i]
    IN  [exists |-> TRUE, marker |-> TRUE,
         index |-> TopIndex([mediaType |-> chosen.mediaType, digest |-> chosen.digest,
                             size |-> chosen.size]),
         blobs |-> Reached(layout, chosen)]

\* lines 52-58: the loop over image_index_json["manifests"] from element i on:
\* 0 when no element matches, -1 when manifest["platform"] raises KeyError,
\* else the first element whose declared architecture is the wanted one
RECURSIVE FirstMatch(_, _, _)
FirstMatch(manifests, i, arch) ==
    IF i > Len(manifests) THEN 0
    ELSE IF "platform" \notin DOMAIN manifests[i] THEN -1
    ELSE IF manifests[i].platform.architecture = arch THEN i
    ELSE FirstMatch(manifests, i + 1, arch)

\* lines 54-57: what the loop body puts in new_index_json["manifests"]
Replacement(manifest) == <<manifest>>

\* Installer.install, lines 139-142: ensure_remote runs ostree and flatpak,
\* which may exit non-zero; then _install_from_path(self.source_path)
I_Install ==
    /\ prog = "install" /\ pc = "i_start"
    /\ \E ok \in BOOLEAN :
         IF ok
         THEN /\ stack' = <<0>>
              /\ pc' = "i_open"
              /\ UNCHANGED err
         ELSE /\ err' = "CalledProcessError"
              /\ pc' = "done"
              /\ UNCHANGED stack
    /\ UNCHANGED <<prog, source, tds, picked, architecture, imports>>
    /\ UNCHANGED composeVars

\* _install_from_path, lines 88-94: index.json and its first blob are read and
\* the media type decides between the copy and the import
I_Open ==
    /\ prog = "install" /\ pc = "i_open"
    /\ LET source_path == Dir(stack[Len(stack)])
           failure == IF OpenError(source_path) # "None" THEN OpenError(source_path)
                      ELSE IF "mediaType" \notin DOMAIN FirstBlob(source_path)
                      THEN "KeyError" ELSE "None"
       IN  IF failure # "None"
           THEN err' = failure /\ pc' = "i_return"
           ELSE /\ pc' = IF IsImageIndex(FirstBlob(source_path))
                         THEN "i_mktemp" ELSE "i_config"
                /\ UNCHANGED err
    /\ UNCHANGED <<prog, source, tds, stack, picked, architecture, imports>>
    /\ UNCHANGED composeVars

\* line 96: tempfile.TemporaryDirectory is entered
I_MkTemp ==
    /\ prog = "install" /\ pc = "i_mktemp"
    /\ tds' = Append(tds, EmptyDir)
    /\ pc' = "i_skopeo"
    /\ UNCHANGED <<prog, err, source, stack, picked, architecture, imports>>
    /\ UNCHANGED composeVars

\* make_single_arch_copy, lines 31-35: skopeo copies the image of the element
\* that fits the machine, or exits non-zero
I_Skopeo ==
    /\ prog = "install" /\ pc = "i_skopeo"
    /\ LET source_path == Dir(stack[Len(stack)])
           elements == FirstBlob(source_path).manifests
       IN  \/ \E i \in 1..Len(elements) :
                /\ "platform" \in DOMAIN elements[i]
                /\ tds' = [tds EXCEPT ![Len(stack)] = SkopeoCopy(source_path, i)]
                /\ picked' = i
                /\ pc' = "i_rewrite"
                /\ UNCHANGED err
           \/ /\ err' = "CalledProcessError"
              /\ pc' = "i_cleanup"
              /\ UNCHANGED <<tds, picked>>
    /\ UNCHANGED <<prog, source, stack, architecture, imports>>
    /\ UNCHANGED composeVars

\* make_single_arch_copy, lines 37-61: the element of the source image index
\* with the architecture of the copy replaces the entry of the copy's index.json
I_Rewrite ==
    /\ prog = "install" /\ pc = "i_rewrite"
    /\ LET source_path == Dir(stack[Len(stack)])
           dest_path == tds[Len(stack)]
           image_index_json == FirstBlob(source_path)
           new_manifest_json == FirstBlob(dest_path)
       IN  IF "config" \notin DOMAIN new_manifest_json
           THEN /\ err' = "KeyError"
                /\ pc' = "i_cleanup"
                /\ UNCHANGED <<tds, architecture>>
           ELSE
           LET config == ReadBlob(dest_path, blob_path(new_manifest_json.config))
               match == FirstMatch(image_index_json.manifests, 1, config.architecture)
           IN
           /\ architecture' = config.architecture
           /\ IF match = -1
              THEN /\ err' = "KeyError"
                   /\ pc' = "i_cleanup"
                   /\ UNCHANGED tds
              ELSE /\ tds' =
                        IF match = 0
                        THEN tds
                        ELSE LET manifest == image_index_json.manifests[match]
                                 src == CHOOSE f \in source_path.blobs :
                                            f.name = blob_path(manifest)
                             IN  [tds EXCEPT ![Len(stack)] =
                                    [@ EXCEPT !.blobs = WriteFile(@, src),
                                              !.index.manifests = Replacement(manifest)]]
                   /\ pc' = "i_recurse"
                   /\ UNCHANGED err
    /\ UNCHANGED <<prog, source, stack, picked, imports>>
    /\ UNCHANGED composeVars

\* the inner call made on source_path instead of the temporary directory
I_Recurse_OnSource ==
    /\ prog = "install" /\ pc = "i_recurse" /\ Len(stack) < MaxDepth
    /\ stack' = Append(stack, stack[Len(stack)])
    /\ pc' = "i_open"
    /\ UNCHANGED <<prog, err, source, tds, picked, architecture, imports>>
    /\ UNCHANGED composeVars

\* line 98: _install_from_path is called on the temporary directory
I_Recurse ==
    /\ prog = "install" /\ pc = "i_recurse" /\ Len(stack) < MaxDepth
    /\ stack' = Append(stack, Len(stack))
    /\ pc' = "i_open"
    /\ UNCHANGED <<prog, err, source, tds, picked, architecture, imports>>
    /\ UNCHANGED composeVars

\* lines 101-112: the config is read for the org.flatpak.ref label
I_Config ==
    /\ prog = "install" /\ pc = "i_config"
    /\ LET source_path == Dir(stack[Len(stack)])
           manifest_json == FirstBlob(source_path)
           failure ==
               IF "config" \notin DOMAIN manifest_json THEN "KeyError"
               ELSE IF LoadBlobError(source_path, manifest_json.config) # "None"
               THEN LoadBlobError(source_path, manifest_json.config)
               ELSE LET config_json == ReadBlob(source_path, blob_path(manifest_json.config))
                        config == IF "config" \in DOMAIN config_json
                                  THEN config_json.config ELSE <<>>
                        labels == IF "Labels" \in DOMAIN config THEN config.Labels ELSE <<>>
                    IN  IF "org.flatpak.ref" \in DOMAIN labels THEN "None"
                        ELSE "RuntimeError"
       IN  IF failure # "None"
           THEN err' = failure /\ pc' = "i_return"
           ELSE pc' = "i_import" /\ UNCHANGED err
    /\ UNCHANGED <<prog, source, tds, stack, picked, architecture, imports>>
    /\ UNCHANGED composeVars

\* lines 114-117: flatpak build-import-bundle is run on source_path; it may
\* exit non-zero
I_Import ==
    /\ prog = "install" /\ pc = "i_import"
    /\ imports' = Append(imports, stack[Len(stack)])
    /\ \E ok \in BOOLEAN :
         IF ok THEN pc' = "i_flatpak" /\ UNCHANGED err
         ELSE err' = "CalledProcessError" /\ pc' = "i_return"
    /\ UNCHANGED <<prog, source, tds, stack, picked, architecture>>
    /\ UNCHANGED composeVars

\* lines 119-136: flatpak info, then flatpak update or flatpak install; either
\* may exit non-zero
I_Flatpak ==
    /\ prog = "install" /\ pc = "i_flatpak"
    /\ \E ok \in BOOLEAN :
         err' = IF ok THEN "None" ELSE "CalledProcessError"
    /\ pc' = "i_return"
    /\ UNCHANGED <<prog, source, tds, stack, picked, architecture, imports>>
    /\ UNCHANGED composeVars

\* a directory from tempfile.mkdtemp(), which nothing removes
I_Cleanup_Keeps ==
    /\ prog = "install" /\ pc = "i_cleanup"
    /\ pc' = "i_return"
    /\ UNCHANGED <<prog, err, source, tds, stack, picked, architecture, imports>>
    /\ UNCHANGED composeVars

\* lines 96-99: the with block of the call on top of the stack is left, by the
\* return of line 99 or by an exception, and its directory is removed
I_Cleanup ==
    /\ prog = "install" /\ pc = "i_cleanup"
    /\ tds' = [tds EXCEPT ![Len(stack)] = Absent]
    /\ pc' = "i_return"
    /\ UNCHANGED <<prog, err, source, stack, picked, architecture, imports>>
    /\ UNCHANGED composeVars

\* the call on top of the stack ends, returning or raising; its caller, if
\* any, is inside its with block
I_Return ==
    /\ prog = "install" /\ pc = "i_return"
    /\ stack' = SubSeq(stack, 1, Len(stack) - 1)
    /\ pc' = IF Len(stack) > 1 THEN "i_cleanup" ELSE "done"
    /\ UNCHANGED <<prog, err, source, tds, picked, architecture, imports>>
    /\ UNCHANGED composeVars

(***************************************************************************)
(* The specification                                                        *)
(***************************************************************************)
Init ==
    /\ prog \in {"compose", "install"}
    /\ pc = IF prog = "compose" THEN "c_start" ELSE "i_start"
    /\ err = "None"
    /\ workdir = FALSE
    /\ call = 0
    /\ images = <<>>
    /\ old_dir = Absent
    /\ output_dir = Absent
    /\ k = 0
    /\ image_index = EmptyImageIndex
    /\ input_image_index = NoFile
    /\ source \in IF prog = "install" THEN Sources ELSE {Absent}
    /\ tds = <<>>
    /\ stack = <<>>
    /\ picked = 0
    /\ architecture = ""
    /\ imports = <<>>

Next ==
    \/ C_MkTemp
    \/ C_Build
    \/ C_Call
    \/ M_Prepare
    \/ M_Iter
    \/ M_Finish
    \/ C_Return
    \/ C_Exit
    \/ I_Install
    \/ I_Open
    \/ I_MkTemp
    \/ I_Skopeo
    \/ I_Rewrite
    \/ I_Recurse
    \/ I_Config
    \/ I_Import
    \/ I_Flatpak
    \/ I_Cleanup
    \/ I_Return

Spec == Init /\ [][Next]_vars

\* the scheduling of a sequential script: a step that can be taken is taken
FairSpec == Spec /\ WF_vars(Next)

(***************************************************************************)
(* Reading a layout back                                                    *)
(***************************************************************************)
\* the descriptors a document holds
RefsOf(body) ==
    IF "manifests" \in DOMAIN body
    THEN {body.manifests[i] : i \in 1..Len(body.manifests)}
    ELSE IF "layers" \in DOMAIN body
    THEN {body.config} \cup {body.layers[i] : i \in 1..Len(body.layers)}
    ELSE {}

\* the descriptors the blobs of ds hold, for the blobs that are there
RefsBelow(layout, ds) ==
    UNION {RefsOf(f.body) : f \in {g \in layout.blobs : \E d \in ds : g.name = blob_path(d)}}

\* every descriptor reached from index.json: the entry, the elements of an
\* image index, the config and layers of the manifests
ReachedDescriptors(layout) ==
    LET top == IF layout.index = NoFile THEN {} ELSE RefsOf(layout.index)
        second == RefsBelow(layout, top)
        third == RefsBelow(layout, second)
    IN  top \cup second \cup third

Closed(layout) ==
    /\ layout.exists
    /\ layout.index # NoFile
    /\ \A d \in ReachedDescriptors(layout) : HasBlob(layout, blob_path(d))

DigestsRight(layout) ==
    \A d \in ReachedDescriptors(layout) : \A f \in layout.blobs :
        f.name = blob_path(d) => /\ f.name = Sha256(f.body)
                                 /\ d.size = f.len

\* the source of the running make_single_arch_copy and its destination
CopySource == Dir(stack[Len(stack)])
CopyDest == tds[Len(stack)]
\* make_single_arch_copy has returned
Projected == prog = "install" /\ pc = "i_recurse"
\* make_multiarch_image has returned
Composed == prog = "compose" /\ pc = "m_return"

SourceIsSingleArch ==
    /\ prog = "install"
    /\ OpenError(source) = "None"
    /\ "mediaType" \in DOMAIN FirstBlob(source)
    /\ FirstBlob(source).mediaType # IndexMediaType
SourceIsMultiArch ==
    /\ prog = "install"
    /\ OpenError(source) = "None"
    /\ "mediaType" \in DOMAIN FirstBlob(source)
    /\ FirstBlob(source).mediaType = IndexMediaType

TempDirPresent == workdir \/ \E i \in 1..Len(tds) : tds[i].exists

(***************************************************************************)
(* The claims                                                               *)
(***************************************************************************)

\* C1: after make_single_arch_copy the index.json of the destination has
\* exactly one element, and it is, field for field, the descriptor of the
\* copied manifest as the source image index has it.
C1_OriginalDescriptorKept ==
    Projected =>
        /\ Len(CopyDest.index.manifests) = 1
        /\ CopyDest.index.manifests[1] = FirstBlob(CopySource).manifests[picked]

\* C2: every descriptor of a layout make_multiarch_image produced declares the
\* sha256 of the blob it names as digest and the byte length of that blob as
\* size, the index.json entry for the image index blob included.
C2_DigestAndSizeRight ==
    Composed => DigestsRight(output_dir)

\* C3: the image index make_multiarch_image writes has one element per input,
\* in the order of the mapping; element i is the first descriptor of input i
\* with platform set to the os and architecture of that input's config and
\* every other field as it was; the descriptor loaded from the input is left
\* as it was read.
C3_ElementsAreInputsWithPlatform ==
    Composed =>
        LET written == FirstBlob(output_dir).manifests IN
        /\ Len(written) = Len(images)
        /\ \A i \in 1..Len(images) :
             LET d == images[i].index.manifests[1]
                 manifest == ReadBlob(images[i], blob_path(d))
                 config == ReadBlob(images[i], blob_path(manifest.config))
             IN  /\ DOMAIN written[i] = DOMAIN d \cup {"platform"}
                 /\ written[i].platform =
                        [os |-> config.os, architecture |-> config.architecture]
                 /\ \A key \in DOMAIN d \ {"platform"} : written[i][key] = d[key]
        /\ Len(images) > 0 => input_image_index = images[Len(images)].index

C3_Witness ==
    /\ Composed
    /\ Len(images) = 2
    /\ images[1] = LayB
    /\ images[2] = LayA
    /\ "annotations" \in DOMAIN FirstBlob(output_dir).manifests[2]

\* C4: a layout that make_single_arch_copy or make_multiarch_image produced
\* from layouts in which every referenced blob is present has every blob
\* present that its index.json reaches: image index, manifest, config, layers.
C4_ProducedLayoutsClosed ==
    /\ (Composed /\ \A i \in 1..Len(images) : Closed(images[i])) => Closed(output_dir)
    /\ (Projected /\ Closed(CopySource)) => Closed(CopyDest)

\* C5: make_single_arch_copy does not complete when no element of the image
\* index matches the wanted architecture: it fails and writes no index.json.
C5_NoMatchFails ==
    Projected => FirstMatch(FirstBlob(CopySource).manifests, 1, architecture) > 0

\* C6: make_multiarch_image never produces an image index in which two
\* elements carry the same platform; two inputs of one platform make it fail
\* with DuplicatePlatform.
C6_NoDuplicatePlatform ==
    Composed =>
        \A i, j \in 1..Len(image_index.manifests) :
            i # j => image_index.manifests[i].platform # image_index.manifests[j].platform

\* C7: installing from a layout whose entry is not an image index never makes
\* a temporary directory or a copy, and leaves the layout as it is.
C7_SingleArchUntouched ==
    [][SourceIsSingleArch => (tds' = <<>> /\ source' = source)]_vars

C7_Witness ==
    /\ SourceIsSingleArch
    /\ source = LayA
    /\ pc = "done"
    /\ err = "None"
    /\ imports = <<0>>

\* C8: when make_multiarch_image fails, a layout that was at output_dir before
\* the call is still there, unmodified.
C8_FailureKeepsOldLayout ==
    (prog = "compose" /\ call > 0 /\ err # "None" /\ old_dir.exists)
        => output_dir = old_dir

\* C9: a temporary directory that was created is removed in the end, however
\* the run goes on: success, a failing copy, a failing nested install, a
\* failing external tool.
C9_TempDirsRemoved == TempDirPresent ~> ~TempDirPresent

C9_Witness ==
    /\ prog = "install"
    /\ pc = "done"
    /\ err = "CalledProcessError"
    /\ imports = <<1>>
    /\ Len(tds) = 1
    /\ ~tds[1].exists

\* C10: _install_from_path calls itself at most once: on a multi-arch layout
\* one temporary copy is made, the inner call finds a manifest at its entry,
\* the bundle import runs at most once and only on the copy, and a run that
\* succeeds has made exactly one copy and run exactly one import.
C10_OneLevelOfRecursion ==
    prog = "install" =>
        /\ Len(stack) <= 2
        /\ Len(tds) <= 1
        /\ Len(imports) <= 1
        /\ (Len(stack) = 2 /\ pc = "i_open") =>
              /\ stack[2] = 1
              /\ OpenError(tds[1]) = "None"
              /\ FirstBlob(tds[1]).mediaType = ManifestMediaType
        /\ SourceIsMultiArch =>
              /\ \A i \in 1..Len(imports) : imports[i] = 1
              /\ (pc = "done" /\ err = "None") => (Len(tds) = 1 /\ imports = <<1>>)

C10_Witness ==
    /\ SourceIsMultiArch
    /\ pc = "done"
    /\ err = "None"
    /\ imports = <<1>>
    /\ Len(tds) = 1
    /\ ~tds[1].exists

====
